---- MODULE Spec2Model ----
(***************************************************************************)
(* Model of the surveillance and alert engine of src/Police_Cam.py         *)
(* (class PoliceAISystem).                                                 *)
(*                                                                         *)
(* Threads of the program:                                                 *)
(*   - the UI thread, which runs one engine call at a time                 *)
(*     (add_suspect, add_suspect_from_array, start_surveillance,           *)
(*     stop_surveillance, the threshold slider's on_change);               *)
(*   - the capture-loop thread (detection_thread, _surveillance_loop);     *)
(*   - the threading.Timer threads started by _trigger_alert, each of      *)
(*     which runs _reset_alert once.                                       *)
(* Every step that reads or writes a field another thread can touch is an  *)
(* action of its own, so the interleavings are those of the program.       *)
(*                                                                         *)
(* Distances, thresholds and confidences are in tenths (6 is 0.6).         *)
(* A face encoding is a point on a line and face_distance is the norm of   *)
(* the difference, |a - b|.                                                *)
(***************************************************************************)
EXTENDS Integers, Sequences, FiniteSets

\* ---------------------------------------------------------------- bounds
\* Frames the camera delivers in one run of the program; every later
\* camera_cap.read() fails (ret = False).
MaxFrames == 2
\* Faces face_locations finds in the frames of one run, all frames together.
MaxFaces == 2
\* Suspects registered in one run of the program.
MaxSuspects == 2

\* ------------------------------------------------------ program constants
\* face_recognition.compare_faces(known, face) is called without a
\* tolerance, so the library default 0.6 applies: match iff distance <= 0.6.
DefaultTolerance == 6
\* ft.Slider(min=0.3, max=0.9, divisions=6): 0.3, 0.4, ..., 0.9.
SliderMin == 3
SliderMax == 9
\* self.confidence_threshold = 0.6
InitialThreshold == 6
\* confidence = 1 - distance
One == 10

SliderValues == SliderMin..SliderMax

\* The slider positions the user moves to: one where no distance met here
\* passes, the initial one, and one above the library tolerance.
SliderInputs == {v \in SliderValues : v \in {4, 6, 8}}

\* ----------------------------------------------------------------- inputs
\* Encodings of the faces that appear in front of the camera.
FaceValues == {6, 17}

SeqsUpTo(S, n) == UNION {[1..k -> S] : k \in 0..n}

\* A frame is the sequence of face encodings that face_locations and
\* face_encodings return for it, in detection order. The frames of a run
\* are numbered 1, 2, ... as the camera delivers them; current_frame holds
\* the number of the frame it is a copy of, 0 for None.
Frames == SeqsUpTo(FaceValues, MaxFaces)

\* What face_recognition.face_encodings returns for an image:
\* the encodings of the faces found, possibly none.
face_encodings(image) ==
    CASE image = "blank" -> << >>
      [] image = "imgA"  -> << 0 >>
      [] image = "imgB"  -> << 10 >>
      [] OTHER           -> << >>

\* What face_recognition.load_image_file does with a path: the image, or
\* "raise" when the file cannot be read.
load_image_file(path) ==
    CASE path = "blank.jpg" -> "blank"
      [] path = "a.jpg"     -> "imgA"
      [] path = "b.jpg"     -> "imgB"
      [] OTHER              -> "raise"

\* The registrations the UI asks for: (image_path, name, details).
PathInputs ==
    { [image_path |-> "missing.jpg", name |-> "A", details |-> "dA"],
      [image_path |-> "blank.jpg",   name |-> "A", details |-> "dA"],
      [image_path |-> "a.jpg",       name |-> "A", details |-> "dA"],
      [image_path |-> "b.jpg",       name |-> "B", details |-> "dB"] }

\* The registrations by array: (image_array, name, details).
ArrayInputs ==
    { [image_array |-> "blank", name |-> "B", details |-> "dB"],
      [image_array |-> "imgA",  name |-> "A", details |-> "dA"],
      [image_array |-> "imgB",  name |-> "B", details |-> "dB"] }

\* The name and details every input above registers with an encoding.
NameOf(enc) == IF enc = 0 THEN "A" ELSE "B"
DetailsOf(enc) == IF enc = 0 THEN "dA" ELSE "dB"

\* cv2.VideoCapture(camera_index).isOpened() for the indexes the UI may pass.
CameraIndexes == {0, 1}
isOpened(camera_index) == camera_index = 0

VARIABLES
    \* fields of PoliceAISystem
    known_faces, known_names, known_details,
    surveillance_active, camera_cap, current_frame, detection_thread,
    alert_active, confidence_threshold, alert_log,
    \* threading.Timer threads started and not yet run
    timers,
    \* the UI thread: where it is, the call it runs, what the last call returned
    ui_pc, ui_call, ui_ret,
    \* the capture-loop thread: where it is and its locals
    loop_pc, frame, faces, matches, face_distances, call,
    \* the world outside: frames and faces delivered, images written,
    \* sounds played
    frames_read, faces_seen, alert_images, sounds,
    \* history: Idle->Active transitions of alert_active; how the latest
    \* call of _trigger_alert went on from line 156; whether
    \* stop_surveillance has returned with no successful start since
    activations, last_trigger, stopped,
    \* history: calls of cv2.imwrite made, written or not
    imwrite_calls,
    \* history of the loop iteration under way, forgotten at the next test
    \* of line 112: the failure it absorbed ("read", "detect", "index" or
    \* "none"), and how its calls of _trigger_alert went, in order, with an
    \* "expired" for each cooldown that ran out after the first call
    absorbed, handed,
    \* the log file that the latest save_logs wrote: whether there is one,
    \* and its text
    log_file

vars == << known_faces, known_names, known_details,
           surveillance_active, camera_cap, current_frame, detection_thread,
           alert_active, confidence_threshold, alert_log, timers,
           ui_pc, ui_call, ui_ret,
           loop_pc, frame, faces, matches, face_distances, call,
           frames_read, faces_seen, alert_images, sounds, activations,
           last_trigger, stopped, imwrite_calls, absorbed, handed,
           log_file >>

registry == << known_faces, known_names, known_details >>
engine == << surveillance_active, camera_cap, detection_thread >>
ui == << ui_pc, ui_call, ui_ret >>
locals == << frame, faces, matches, face_distances, call >>
camera == << frames_read, faces_seen >>
iteration == << absorbed, handed >>
effects == << alert_log, alert_images, sounds, activations, last_trigger,
              imwrite_calls, iteration >>

NoFile == [exists |-> FALSE, text |-> << >>]
NoCall == [op |-> "none", name |-> "", details |-> ""]
NoArgs == [name |-> "", details |-> "", confidence |-> 0]

\* __init__
Init ==
    /\ known_faces = << >>
    /\ known_names = << >>
    /\ known_details = << >>
    /\ surveillance_active = FALSE
    /\ camera_cap = "None"
    /\ current_frame = 0
    /\ detection_thread = "None"
    /\ alert_active = FALSE
    /\ confidence_threshold = InitialThreshold
    /\ alert_log = << >>
    /\ timers = 0
    /\ ui_pc = "idle"
    /\ ui_call = NoCall
    /\ ui_ret = "none"
    /\ loop_pc = "dead"
    /\ frame = << >>
    /\ faces = << >>
    /\ matches = << >>
    /\ face_distances = << >>
    /\ call = NoArgs
    /\ frames_read = 0
    /\ faces_seen = 0
    /\ alert_images = 0
    /\ sounds = 0
    /\ activations = 0
    /\ last_trigger = "none"
    /\ stopped = FALSE
    /\ imwrite_calls = 0
    /\ absorbed = "none"
    /\ handed = << >>
    /\ log_file = NoFile

\* ------------------------------------------------------------ the UI thread
Call(op, name, details) == [op |-> op, name |-> name, details |-> details]

\* The body shared by add_suspect (lines 48-62) and add_suspect_from_array
\* (lines 66-78) once the encodings are computed: `result` is what the
\* try block got, [raised |-> TRUE] or [raised |-> FALSE, encodings |-> e].
\* A failure returns False and touches no list; a success appends to
\* known_faces here and goes on to the two other appends.
append_face(op, result, name, details) ==
    /\ ui_pc = "idle"
    /\ IF result.raised \/ Len(result.encodings) = 0
       THEN /\ ui_ret' = "False"
            /\ UNCHANGED << ui_pc, ui_call, known_faces >>
       ELSE /\ Len(known_faces) < MaxSuspects
            /\ ui_call' = Call(op, name, details)
            /\ known_faces' = Append(known_faces, result.encodings[1])
            /\ ui_pc' = "append_name"
            /\ ui_ret' = "running"
    /\ UNCHANGED << known_names, known_details, engine, current_frame,
                    alert_active, confidence_threshold, timers, loop_pc,
                    locals, camera, log_file, effects, stopped >>

\* add_suspect, lines 50-54 (or 50-53, 58-62 on failure)
add_suspect(image_path, name, details) ==
    LET image == load_image_file(image_path)
        result == IF image = "raise"
                  THEN [raised |-> TRUE, encodings |-> << >>]
                  ELSE [raised |-> FALSE, encodings |-> face_encodings(image)]
    IN  append_face("add_suspect", result, name, details)

\* add_suspect_from_array, lines 67-70 (or 67-69, 74-78 on failure)
add_suspect_from_array(image_array, name, details) ==
    append_face("add_suspect_from_array",
                [raised |-> FALSE, encodings |-> face_encodings(image_array)],
                name, details)

\* self.known_names.append(name), lines 55 and 71
append_name ==
    /\ ui_pc = "append_name"
    /\ known_names' = Append(known_names, ui_call.name)
    /\ ui_pc' = "append_details"
    /\ UNCHANGED << known_faces, known_details, engine, current_frame,
                    alert_active, confidence_threshold, timers, ui_call,
                    ui_ret, loop_pc, locals,
                    camera, log_file, effects, stopped >>

\* Returning True without the append of line 56 (72).
append_details_forgotten ==
    /\ ui_pc = "append_details"
    /\ ui_pc' = "idle"
    /\ ui_ret' = "True"
    /\ ui_call' = NoCall
    /\ UNCHANGED << registry, engine, current_frame, alert_active,
                    confidence_threshold, timers, loop_pc, locals,
                    camera, log_file, effects, stopped >>

\* self.known_details.append(details); return True, lines 56-57 and 72-73
append_details ==
    /\ ui_pc = "append_details"
    /\ known_details' = Append(known_details, ui_call.details)
    /\ ui_pc' = "idle"
    /\ ui_ret' = "True"
    /\ ui_call' = NoCall
    /\ UNCHANGED << known_faces, known_names, engine, current_frame,
                    alert_active, confidence_threshold, timers,
                    loop_pc, locals, camera, log_file, effects, stopped >>

\* start_surveillance raising the flag before it has looked at isOpened().
start_surveillance_flag_first(camera_index) ==
    /\ ui_pc = "idle"
    /\ IF surveillance_active
       THEN /\ ui_ret' = "False"
            /\ UNCHANGED << engine, loop_pc, locals, stopped >>
       ELSE IF ~isOpened(camera_index)
       THEN /\ camera_cap' = "unopened"
            /\ surveillance_active' = TRUE
            /\ ui_ret' = "False"
            /\ UNCHANGED << detection_thread, loop_pc, locals, stopped >>
       ELSE /\ camera_cap' = "open"
            /\ surveillance_active' = TRUE
            /\ detection_thread' = "thread"
            /\ loop_pc' = "top"
            /\ UNCHANGED locals
            /\ ui_ret' = "True"
            /\ stopped' = FALSE
    /\ UNCHANGED << registry, current_frame, alert_active,
                    confidence_threshold, timers, ui_pc, ui_call,
                    camera, log_file, effects >>

start_surveillance_unguarded(camera_index) ==
    /\ ui_pc = "idle"
    /\ IF ~isOpened(camera_index)
       THEN /\ camera_cap' = "unopened"
            /\ ui_ret' = "False"
            /\ UNCHANGED << surveillance_active, detection_thread, loop_pc,
                            locals, stopped >>
       ELSE /\ camera_cap' = "open"
            /\ surveillance_active' = TRUE
            /\ detection_thread' = "thread"
            /\ loop_pc' = "top"
            /\ frame' = << >>
            /\ faces' = << >>
            /\ matches' = << >>
            /\ face_distances' = << >>
            /\ call' = NoArgs
            /\ ui_ret' = "True"
            /\ stopped' = FALSE
    /\ UNCHANGED << registry, current_frame, alert_active,
                    confidence_threshold, timers, ui_pc, ui_call,
                    camera, log_file, effects >>

\* start_surveillance, lines 80-97. The new thread is the only one that
\* reads what lines 86-93 write, and it starts at line 93.
start_surveillance(camera_index) ==
    /\ ui_pc = "idle"
    /\ IF surveillance_active
       THEN /\ ui_ret' = "False"
            /\ UNCHANGED << engine, loop_pc, locals, stopped >>
       ELSE IF ~isOpened(camera_index)
       THEN /\ camera_cap' = "unopened"
            /\ ui_ret' = "False"
            /\ UNCHANGED << surveillance_active, detection_thread, loop_pc,
                            locals, stopped >>
       ELSE /\ camera_cap' = "open"
            /\ surveillance_active' = TRUE
            /\ detection_thread' = "thread"
            /\ loop_pc' = "top"
            /\ frame' = << >>
            /\ faces' = << >>
            /\ matches' = << >>
            /\ face_distances' = << >>
            /\ call' = NoArgs
            /\ ui_ret' = "True"
            /\ stopped' = FALSE
    /\ UNCHANGED << registry, current_frame, alert_active,
                    confidence_threshold, timers, ui_pc, ui_call,
                    camera, log_file, effects >>

\* stop_surveillance, line 101
stop_surveillance ==
    /\ ui_pc = "idle"
    /\ surveillance_active' = FALSE
    /\ ui_pc' = "join"
    /\ ui_ret' = "running"
    /\ UNCHANGED << registry, camera_cap, detection_thread, current_frame,
                    alert_active, confidence_threshold, timers, ui_call,
                    loop_pc, locals, camera, log_file, effects, stopped >>

\* stop_surveillance without the join of lines 103-104.
stop_without_join ==
    /\ ui_pc = "join"
    /\ camera_cap' = "None"
    /\ ui_pc' = "idle"
    /\ ui_ret' = "None"
    /\ stopped' = TRUE
    /\ UNCHANGED << registry, surveillance_active, detection_thread,
                    current_frame, alert_active, confidence_threshold,
                    timers, ui_call, loop_pc, locals,
                    camera, log_file, effects >>

\* stop_surveillance without the release of lines 106-108.
stop_without_release ==
    /\ ui_pc = "join"
    /\ detection_thread = "None" \/ loop_pc = "dead"
    /\ ui_pc' = "idle"
    /\ ui_ret' = "None"
    /\ stopped' = TRUE
    /\ UNCHANGED << registry, engine, current_frame, alert_active,
                    confidence_threshold, timers, ui_call, loop_pc, locals,
                    camera, log_file, effects >>

\* stop_surveillance, lines 103-108: join() returns once the thread has
\* exited (at once when there is no thread); then the capture is released.
stop_join ==
    /\ ui_pc = "join"
    /\ detection_thread = "None" \/ loop_pc = "dead"
    /\ camera_cap' = "None"
    /\ ui_pc' = "idle"
    /\ ui_ret' = "None"
    /\ stopped' = TRUE
    /\ UNCHANGED << registry, surveillance_active, detection_thread,
                    current_frame, alert_active, confidence_threshold,
                    timers, ui_call, loop_pc, locals,
                    camera, log_file, effects >>

\* The slider's on_change, line 488
set_threshold(value) ==
    /\ ui_pc = "idle"
    /\ confidence_threshold' = value
    /\ UNCHANGED << registry, engine, current_frame, alert_active, timers,
                    ui, loop_pc, locals, camera, log_file, effects, stopped >>

\* The keys of alert_data in the order of the dict, lines 162-168
Keys == << "timestamp", "suspect_name", "suspect_details", "confidence",
           "location" >>

\* json.dump writes a dict as an object, its members in the order of the
\* dict, and a list as an array of its elements in order.
dump_object(alert) == [i \in 1..Len(Keys) |-> << Keys[i], alert[Keys[i]] >>]
json_dump(log) == [i \in 1..Len(log) |-> dump_object(log[i])]

\* json.load builds the dict of an object from its members, and the list of
\* an array.
load_object(members) ==
    [k \in {members[i][1] : i \in DOMAIN members} |->
        LET i == CHOOSE j \in DOMAIN members : members[j][1] = k
        IN  members[i][2]]
json_load(text) == [i \in 1..Len(text) |-> load_object(text[i])]

save_logs_newest_first(opened) ==
    /\ ui_pc = "idle"
    /\ IF opened
       THEN /\ log_file' = [exists |-> TRUE, text |-> json_dump(
                 [i \in 1..Len(alert_log) |->
                     alert_log[Len(alert_log) + 1 - i]])]
            /\ ui_ret' = "log_file"
       ELSE /\ ui_ret' = "raise"
            /\ UNCHANGED log_file
    /\ UNCHANGED << registry, engine, current_frame, alert_active,
                    confidence_threshold, timers, ui_pc, ui_call, loop_pc,
                    locals, camera, effects, stopped >>

\* save_logs, lines 228-236: json.dump(self.alert_log, f, indent=2) into a
\* new file of logs/, whose name is returned
save_logs(opened) ==
    /\ ui_pc = "idle"
    /\ IF opened
       THEN /\ log_file' = [exists |-> TRUE, text |-> json_dump(alert_log)]
            /\ ui_ret' = "log_file"
       ELSE /\ ui_ret' = "raise"
            /\ UNCHANGED log_file
    /\ UNCHANGED << registry, engine, current_frame, alert_active,
                    confidence_threshold, timers, ui_pc, ui_call, loop_pc,
                    locals, camera, effects, stopped >>

\* ---------------------------------------------------- the matching functions
Abs(x) == IF x < 0 THEN -x ELSE x

\* face_recognition.face_distance(known, face): one distance per known
\* encoding, in the order of the list.
face_distance(known, face) == [i \in 1..Len(known) |-> Abs(known[i] - face)]

\* face_recognition.compare_faces(known, face), tolerance left to its default:
\* list(face_distance(known, face) <= tolerance).
compare_faces(known, face) ==
    [i \in 1..Len(known) |-> face_distance(known, face)[i] <= DefaultTolerance]

\* np.argmin: the first index of the minimum (1-based here).
Min(S) == CHOOSE x \in S : \A y \in S : x <= y
argmin(dists) ==
    LET m == Min({dists[i] : i \in 1..Len(dists)})
    IN  Min({i \in 1..Len(dists) : dists[i] = m})

\* ------------------------------------------------- the capture-loop thread
rest == << registry, engine, confidence_threshold, timers, ui, stopped >>

\* Leaving the for loop of _detect_faces, by its end or by the except
\* clause of lines 151-152: back to time.sleep and the loop's test.
NoLocals ==
    /\ frame' = << >>
    /\ faces' = << >>
    /\ matches' = << >>
    /\ face_distances' = << >>
    /\ call' = NoArgs

\* The for loop of line 136 moving on from the face it has handled.
next_face ==
    /\ IF Len(faces) > 1
       THEN /\ faces' = Tail(faces)
            /\ loop_pc' = "compare"
            /\ matches' = << >>
            /\ face_distances' = << >>
            /\ call' = NoArgs
            /\ UNCHANGED frame
       ELSE /\ loop_pc' = "top"
            /\ NoLocals

loop_test_ignores_flag ==
    /\ loop_pc = "top"
    /\ loop_pc' = IF camera_cap # "None"
                  THEN "read" ELSE "dead"
    /\ absorbed' = "none"
    /\ handed' = << >>
    /\ UNCHANGED << rest, current_frame, alert_active, locals,
                    camera, log_file,
                    alert_log, alert_images, sounds, activations,
                    last_trigger, imwrite_calls >>

\* while self.surveillance_active and self.camera_cap, line 112
loop_test ==
    /\ loop_pc = "top"
    /\ loop_pc' = IF surveillance_active /\ camera_cap # "None"
                  THEN "read" ELSE "dead"
    /\ absorbed' = "none"
    /\ handed' = << >>
    /\ UNCHANGED << rest, current_frame, alert_active, locals,
                    camera, log_file,
                    alert_log, alert_images, sounds, activations,
                    last_trigger, imwrite_calls >>

read_fails_breaks ==
    /\ loop_pc = "read"
    /\ loop_pc' = "dead"
    /\ absorbed' = "read"
    /\ UNCHANGED << rest, current_frame, alert_active, locals,
                    camera, log_file,
                    alert_log, alert_images, sounds, activations,
                    last_trigger, imwrite_calls, handed >>

\* ret, frame = self.camera_cap.read() with ret False, lines 113-115.
\* With camera_cap None the call raises AttributeError and the thread ends.
read_fails ==
    /\ loop_pc = "read"
    /\ loop_pc' = IF camera_cap = "None" THEN "dead" ELSE "top"
    /\ absorbed' = "read"
    /\ UNCHANGED << rest, current_frame, alert_active, locals,
                    camera, log_file,
                    alert_log, alert_images, sounds, activations,
                    last_trigger, imwrite_calls, handed >>

\* A frame is read and published, lines 113-117
read_frame(f) ==
    /\ loop_pc = "read"
    /\ camera_cap # "None"
    /\ frames_read < MaxFrames
    /\ faces_seen + Len(f) <= MaxFaces
    /\ frames_read' = frames_read + 1
    /\ faces_seen' = faces_seen + Len(f)
    /\ current_frame' = frames_read + 1
    /\ frame' = f
    /\ loop_pc' = "registry"
    /\ UNCHANGED << rest, alert_active, faces, matches, face_distances, call,
                    effects, log_file >>

registry_test_unconditional ==
    /\ loop_pc = "registry"
    /\ loop_pc' = "detect"
    /\ UNCHANGED locals
    /\ UNCHANGED << rest, current_frame, alert_active,
                    camera, log_file, effects >>

\* if len(self.known_faces) > 0, lines 120-123
registry_test ==
    /\ loop_pc = "registry"
    /\ IF Len(known_faces) > 0
       THEN /\ loop_pc' = "detect"
            /\ UNCHANGED locals
       ELSE /\ loop_pc' = "top"
            /\ NoLocals
    /\ UNCHANGED << rest, current_frame, alert_active,
                    camera, log_file, effects >>

\* _detect_faces, lines 129-136: the faces of the frame, in detection order
detect_faces ==
    /\ loop_pc = "detect"
    /\ IF Len(frame) > 0
       THEN /\ faces' = frame
            /\ loop_pc' = "compare"
            /\ UNCHANGED << frame, matches, face_distances, call >>
       ELSE /\ loop_pc' = "top"
            /\ NoLocals
    /\ UNCHANGED << rest, current_frame, alert_active,
                    camera, log_file, effects >>

\* _detect_faces, lines 129-134 raising: caught at line 151
detect_raises ==
    /\ loop_pc = "detect"
    /\ loop_pc' = "top"
    /\ NoLocals
    /\ absorbed' = "detect"
    /\ UNCHANGED << rest, current_frame, alert_active,
                    camera, log_file, alert_log,
                    alert_images, sounds, activations, last_trigger,
                    imwrite_calls, handed >>

\* matches = compare_faces(self.known_faces, face_encoding), line 138
compare ==
    /\ loop_pc = "compare"
    /\ matches' = compare_faces(known_faces, Head(faces))
    /\ loop_pc' = "distance"
    /\ UNCHANGED << rest, current_frame, alert_active, frame, faces,
                    face_distances, call, camera, log_file, effects >>

\* face_distances = face_distance(self.known_faces, face_encoding), line 139
distance ==
    /\ loop_pc = "distance"
    /\ face_distances' = face_distance(known_faces, Head(faces))
    /\ loop_pc' = "decide"
    /\ UNCHANGED << rest, current_frame, alert_active, frame, faces,
                    matches, call, camera, log_file, effects >>

best_match_index == argmin(face_distances)

accepts_above(ms, ds, threshold) ==
    ms[argmin(ds)] /\ ds[argmin(ds)] > threshold

\* The test of line 143 on the two lists the thread holds.
accepts(ms, ds, threshold) ==
    ms[argmin(ds)] /\ ds[argmin(ds)] < threshold

\* Lines 141-143. matches[best_match_index] raises IndexError when
\* face_distances is the longer list; line 151 catches it.
decide ==
    /\ loop_pc = "decide"
    /\ IF best_match_index > Len(matches)
       THEN /\ loop_pc' = "top"
            /\ NoLocals
            /\ absorbed' = "index"
       ELSE IF accepts(matches, face_distances, confidence_threshold)
       THEN /\ loop_pc' = "name"
            /\ UNCHANGED << locals, absorbed >>
       ELSE /\ next_face
            /\ UNCHANGED absorbed
    /\ UNCHANGED << rest, current_frame, alert_active,
                    camera, log_file, alert_log,
                    alert_images, sounds, activations, last_trigger,
                    imwrite_calls, handed >>

\* suspect_name = self.known_names[best_match_index], line 145
read_name ==
    /\ loop_pc = "name"
    /\ IF best_match_index > Len(known_names)
       THEN /\ loop_pc' = "top"
            /\ NoLocals
            /\ absorbed' = "index"
       ELSE /\ call' = [call EXCEPT !.name = known_names[best_match_index]]
            /\ loop_pc' = "details"
            /\ UNCHANGED << frame, faces, matches, face_distances, absorbed >>
    /\ UNCHANGED << rest, current_frame, alert_active,
                    camera, log_file, alert_log,
                    alert_images, sounds, activations, last_trigger,
                    imwrite_calls, handed >>

\* suspect_details = self.known_details[best_match_index];
\* confidence = 1 - face_distances[best_match_index], lines 146-147
read_details ==
    /\ loop_pc = "details"
    /\ IF best_match_index > Len(known_details)
       THEN /\ loop_pc' = "top"
            /\ NoLocals
            /\ absorbed' = "index"
       ELSE /\ call' = [call EXCEPT
                          !.details = known_details[best_match_index],
                          !.confidence = One - face_distances[best_match_index]]
            /\ loop_pc' = "trigger"
            /\ UNCHANGED << frame, faces, matches, face_distances, absorbed >>
    /\ UNCHANGED << rest, current_frame, alert_active,
                    camera, log_file, alert_log,
                    alert_images, sounds, activations, last_trigger,
                    imwrite_calls, handed >>

\* ------------------------------------------------------------ _trigger_alert
\* An Idle->Active transition of alert_active: 1 when the flag goes from
\* false to true, 0 otherwise.
Rise(before, after) == IF ~before /\ after THEN 1 ELSE 0

\* _trigger_alert without the test of lines 156-157.
trigger_alert_unguarded ==
    /\ loop_pc = "trigger"
    /\ alert_active' = TRUE
    /\ activations' = activations + Rise(alert_active, TRUE)
    /\ loop_pc' = "log"
    /\ last_trigger' = "accepted"
    /\ handed' = Append(handed, "accepted")
    /\ UNCHANGED << rest, current_frame, camera, log_file, alert_log,
                    alert_images, sounds, locals, imwrite_calls, absorbed >>

trigger_alert_restarts_cooldown ==
    /\ loop_pc = "trigger"
    /\ IF alert_active
       THEN /\ next_face
            /\ last_trigger' = "discarded"
            /\ handed' = Append(handed, "discarded")
            /\ timers' = timers + 1
            /\ UNCHANGED << alert_active, activations >>
       ELSE /\ alert_active' = TRUE
            /\ activations' = activations + Rise(alert_active, TRUE)
            /\ loop_pc' = "log"
            /\ last_trigger' = "accepted"
            /\ handed' = Append(handed, "accepted")
            /\ UNCHANGED << locals, timers >>
    /\ UNCHANGED << registry, engine, confidence_threshold, ui, stopped,
                    current_frame, camera, log_file, alert_log,
                    alert_images, sounds, imwrite_calls, absorbed >>

\* _trigger_alert, lines 156-159: return while an alert is active, else
\* raise the flag and go on.
trigger_alert ==
    /\ loop_pc = "trigger"
    /\ IF alert_active
       THEN /\ next_face
            /\ last_trigger' = "discarded"
            /\ handed' = Append(handed, "discarded")
            /\ UNCHANGED << alert_active, activations >>
       ELSE /\ alert_active' = TRUE
            /\ activations' = activations + Rise(alert_active, TRUE)
            /\ loop_pc' = "log"
            /\ last_trigger' = "accepted"
            /\ handed' = Append(handed, "accepted")
            /\ UNCHANGED locals
    /\ UNCHANGED << rest, current_frame, camera, log_file, alert_log,
                    alert_images, sounds, imwrite_calls, absorbed >>

\* datetime.now(): the clock of the model ticks when the camera delivers a
\* frame, so the time is the number of the latest frame.
now == frames_read

\* alert_data = {...}, lines 162-168
alert_data == [timestamp |-> now,
               suspect_name |-> call.name,
               suspect_details |-> call.details,
               confidence |-> call.confidence,
               location |-> "Camera Feed"]

log_alert_newest_first ==
    /\ loop_pc = "log"
    /\ alert_log' = << alert_data >> \o alert_log
    /\ loop_pc' = "image"
    /\ UNCHANGED << rest, current_frame, alert_active, locals, camera,
                    log_file, alert_images, sounds, activations,
                    last_trigger, imwrite_calls, iteration >>

\* self.alert_log.append(alert_data), line 170
log_alert ==
    /\ loop_pc = "log"
    /\ alert_log' = Append(alert_log, alert_data)
    /\ loop_pc' = "image"
    /\ UNCHANGED << rest, current_frame, alert_active, locals, camera,
                    log_file, alert_images, sounds, activations,
                    last_trigger, imwrite_calls, iteration >>

write_image_skipped(written) ==
    /\ loop_pc = "image"
    /\ UNCHANGED << imwrite_calls, alert_images >>
    /\ loop_pc' = "sound"
    /\ UNCHANGED << rest, current_frame, alert_active, locals,
                    camera, log_file,
                    alert_log, sounds, activations, last_trigger, iteration >>

write_image_raises(written) ==
    /\ loop_pc = "image"
    /\ imwrite_calls' = imwrite_calls + 1
    /\ alert_images' = alert_images + (IF written THEN 1 ELSE 0)
    /\ IF written
       THEN /\ loop_pc' = "sound"
            /\ UNCHANGED locals
       ELSE /\ loop_pc' = "top"
            /\ NoLocals
    /\ UNCHANGED << rest, current_frame, alert_active, camera, log_file,
                    alert_log, sounds, activations, last_trigger, iteration >>

\* cv2.imwrite(alert_image_path, frame), lines 173-175. imwrite returns
\* False when it cannot write; the result is not looked at.
write_image(written) ==
    /\ loop_pc = "image"
    /\ imwrite_calls' = imwrite_calls + 1
    /\ alert_images' = alert_images + (IF written THEN 1 ELSE 0)
    /\ loop_pc' = "sound"
    /\ UNCHANGED << rest, current_frame, alert_active, locals,
                    camera, log_file,
                    alert_log, sounds, activations, last_trigger, iteration >>

\* self._play_alert_sound(), line 178 (lines 183-205; it catches its errors)
play_alert_sound ==
    /\ loop_pc = "sound"
    /\ sounds' = sounds + 1
    /\ loop_pc' = "timer"
    /\ UNCHANGED << rest, current_frame, alert_active, locals,
                    camera, log_file,
                    alert_log, alert_images, activations, last_trigger,
                    imwrite_calls, iteration >>

\* _trigger_alert returning without line 181.
start_timer_forgotten ==
    /\ loop_pc = "timer"
    /\ next_face
    /\ UNCHANGED << registry, engine, confidence_threshold, ui, stopped,
                    timers, current_frame, alert_active, camera, log_file,
                    effects >>

\* threading.Timer(5.0, self._reset_alert).start(), line 181, and the return
start_timer ==
    /\ loop_pc = "timer"
    /\ timers' = timers + 1
    /\ next_face
    /\ UNCHANGED << registry, engine, confidence_threshold, ui, stopped,
                    current_frame, alert_active, camera, log_file, effects >>

\* ---------------------------------------------------------- the timer thread
\* The history of the iteration under way, with a cooldown running out.
Expired(h) == IF h = << >> THEN h ELSE Append(h, "expired")

\* _reset_alert leaving the flag as it is.
reset_alert_keeps_flag ==
    /\ timers > 0
    /\ timers' = timers - 1
    /\ handed' = Expired(handed)
    /\ UNCHANGED << registry, engine, confidence_threshold, ui, stopped,
                    alert_active, current_frame, loop_pc, locals,

                    camera, log_file, alert_log, alert_images, sounds, activations,
                    last_trigger, imwrite_calls, absorbed >>

\* _reset_alert, lines 207-209, run by a Timer thread when its 5 s are over
reset_alert ==
    /\ timers > 0
    /\ timers' = timers - 1
    /\ alert_active' = FALSE
    /\ handed' = Expired(handed)
    /\ UNCHANGED << registry, engine, confidence_threshold, ui, stopped,
                    current_frame, loop_pc, locals,
                    camera, log_file, alert_log,
                    alert_images, sounds, activations, last_trigger,
                    imwrite_calls, absorbed >>

\* ------------------------------------------------------------ specification
UIStep ==
    \/ \E i \in PathInputs : add_suspect(i.image_path, i.name, i.details)
    \/ \E i \in ArrayInputs :
          add_suspect_from_array(i.image_array, i.name, i.details)
    \/ append_name
    \/ append_details
    \/ \E c \in CameraIndexes : start_surveillance(c)
    \/ stop_surveillance
    \/ stop_join
    \/ \E v \in SliderInputs : set_threshold(v)

LoopStep ==
    \/ loop_test
    \/ read_fails
    \/ \E f \in Frames : read_frame(f)
    \/ registry_test
    \/ detect_faces
    \/ detect_raises
    \/ compare
    \/ distance
    \/ decide
    \/ read_name
    \/ read_details
    \/ trigger_alert
    \/ log_alert
    \/ \E written \in BOOLEAN : write_image(written)
    \/ play_alert_sound
    \/ start_timer

Next == UIStep \/ LoopStep \/ reset_alert

Spec == Init /\ [][Next]_vars

\* The program with the Save Logs button, which writes the file and changes
\* nothing else: the claims about the log and its file are checked here.
SaveNext == Next \/ \E opened \in BOOLEAN : save_logs(opened)
SaveSpec == Init /\ [][SaveNext]_vars

\* The threads are scheduled fairly: the capture-loop thread, while it is
\* alive, takes its next step, a started Timer runs its callback, and
\* join() returns once the thread it waits for has exited.
FairSpec ==
    Spec /\ WF_vars(LoopStep) /\ WF_vars(reset_alert) /\ WF_vars(stop_join)

\* ------------------------------------------------------------------ claims
InTriggerAlert == loop_pc \in {"log", "image", "sound", "timer"}

\* C1. Debounce: a call of _trigger_alert made while alert_active is true
\* returns and appends nothing; a call made while it is false goes on to
\* append exactly one record; alert_log grows in no other way; so the
\* length of alert_log is the number of Idle->Active transitions (the
\* record of the latest transition is appended by the step after it).
C1_Debounce ==
    /\ [](Len(alert_log) + (IF loop_pc = "log" THEN 1 ELSE 0) = activations)
    /\ [][(loop_pc = "trigger" /\ loop_pc' # "trigger" /\ alert_active)
            => (alert_log' = alert_log /\ loop_pc' # "log"
                /\ activations' = activations)]_vars
    /\ [][(loop_pc = "trigger" /\ loop_pc' # "trigger" /\ ~alert_active)
            => (loop_pc' = "log" /\ activations' = activations + 1)]_vars
    /\ [][alert_log' # alert_log
            => (loop_pc = "log" /\ Len(alert_log') = Len(alert_log) + 1
                /\ SubSeq(alert_log', 1, Len(alert_log)) = alert_log)]_vars

\* An alert was logged and the next call, made during its cooldown, was
\* discarded.
C1_Witness ==
    /\ last_trigger = "discarded"
    /\ alert_active
    /\ timers = 1
    /\ Len(alert_log) = 1
    /\ activations = 1

\* C2. Cooldown: whenever alert_active is true it is later false again, and
\* a call of _trigger_alert made while it is false raises it and appends
\* exactly one record.
C2_Cooldown ==
    /\ alert_active ~> ~alert_active
    /\ [][(loop_pc = "trigger" /\ loop_pc' # "trigger" /\ ~alert_active)
            => (alert_active' /\ loop_pc' = "log")]_vars
    /\ [][loop_pc = "log" /\ loop_pc' # "log"
            => Len(alert_log') = Len(alert_log) + 1]_vars
    /\ (loop_pc = "log") ~> (loop_pc # "log")

\* A second alert was raised and logged after the first cooldown ran out,
\* and the second cooldown ran out too.
C2_Witness ==
    /\ activations = 2
    /\ Len(alert_log) = 2
    /\ ~alert_active
    /\ timers = 0

\* C3, as claimed. alert_active implies exactly one pending cooldown timer,
\* and there is never more than one.
C3_ExactlyOneTimer ==
    /\ alert_active => timers = 1
    /\ timers <= 1

\* C3, amended. There is never more than one pending cooldown timer; a
\* pending timer implies alert_active; and alert_active implies exactly one
\* pending timer once the call of _trigger_alert that raised it has returned.
C3_TimerAfterReturn ==
    /\ timers <= 1
    /\ timers = 1 => alert_active
    /\ (alert_active /\ ~InTriggerAlert) => timers = 1

\* The capture loop is back at its test while the cooldown is pending.
C3_Witness ==
    /\ alert_active
    /\ timers = 1
    /\ loop_pc = "top"
    /\ Len(alert_log) = 1

\* C4. If stop_surveillance is called while a cooldown timer is pending,
\* the timer is cancelled: once stop_surveillance has returned no timer is
\* pending, so _reset_alert does not run after the return.
C4_TimerCancelled == stopped => timers = 0

\* C5. From the return of stop_surveillance to the next successful
\* start_surveillance, _play_alert_sound is not called and alert_log does
\* not grow.
C5_QuietAfterStop ==
    [][stopped => (alert_log' = alert_log /\ sounds' = sounds)]_vars

\* stop_surveillance has returned while the cooldown of a logged alert is
\* pending.
C5_Witness ==
    /\ stopped
    /\ timers = 1
    /\ alert_active
    /\ Len(alert_log) >= 1
    /\ sounds >= 1

\* The fields of PoliceAISystem.
Fields == << known_faces, known_names, known_details, surveillance_active,
             camera_cap, current_frame, detection_thread, alert_active,
             confidence_threshold, alert_log >>

\* The engine as stop_surveillance leaves it.
Stopped == ~surveillance_active /\ camera_cap = "None" /\ loop_pc = "dead"

\* A step of stop_surveillance.
StopStep ==
    \/ ui_pc = "idle" /\ ui_pc' = "join"
    \/ ui_pc = "join" /\ ui_pc' = "idle"

\* C6. When stop_surveillance returns, surveillance_active is false, the
\* capture-loop thread has exited and camera_cap is None; and a
\* stop_surveillance on an engine in that state (a second stop, a stop
\* before any start) changes no field of the engine, no thread and no timer.
C6_StopSynchronous ==
    /\ [][(ui_pc = "join" /\ ui_pc' = "idle")
            => (Stopped' /\ ui_ret' = "None")]_vars
    /\ [][(StopStep /\ Stopped)
            => UNCHANGED << Fields, loop_pc, timers, effects >>]_vars
    /\ [](stopped => (~surveillance_active /\ loop_pc = "dead"))

\* A second stop_surveillance is waiting at join() after a first one ended
\* a surveillance that had read frames.
C6_Witness ==
    /\ stopped
    /\ ui_pc = "join"
    /\ detection_thread = "thread"
    /\ frames_read >= 1

\* A start_surveillance that succeeds.
StartSucceeds ==
    /\ \E c \in CameraIndexes : isOpened(c) /\ start_surveillance(c)
    /\ ui_ret' = "True"
    /\ surveillance_active'
    /\ camera_cap' = "open"
    /\ loop_pc' = "top"

\* A start_surveillance on a camera that cannot be opened, made while
\* surveillance is off.
StartUnopenable ==
    /\ ~surveillance_active
    /\ \E c \in CameraIndexes : ~isOpened(c) /\ start_surveillance(c)

\* C7. start_surveillance on a camera that cannot be opened returns False,
\* leaves surveillance_active false and starts no thread; and after it a
\* start_surveillance with a camera that opens succeeds.
C7_StartFailure ==
    /\ [][StartUnopenable
            => (/\ ui_ret' = "False"
                /\ ~surveillance_active'
                /\ camera_cap' = "unopened"
                /\ loop_pc' = "dead"
                /\ detection_thread' = detection_thread)]_vars
    /\ [](camera_cap = "unopened"
            => (~surveillance_active /\ loop_pc = "dead"))
    /\ []((camera_cap = "unopened" /\ ui_pc = "idle") => ENABLED StartSucceeds)

\* start_surveillance has just failed on a camera that cannot be opened.
C7_Witness ==
    /\ camera_cap = "unopened"
    /\ ui_ret = "False"
    /\ ui_pc = "idle"
    /\ ~surveillance_active

\* C8. A face is accepted if and only if its minimum distance to the
\* registry is strictly below confidence_threshold, for every threshold of
\* the slider (the lists the thread holds being of one length).
C8_AcceptIffBelowThreshold ==
    [][(loop_pc = "decide" /\ loop_pc' # "decide"
          /\ Len(matches) = Len(face_distances))
         => ((loop_pc' = "name")
               <=> (face_distances[best_match_index] < confidence_threshold))]_vars

\* C9. A match evaluation never sees known_faces at two lengths, and never
\* fails on an index that one of the three lists does not have yet.
C9_NoTornRegistry ==
    /\ loop_pc = "decide" => /\ Len(matches) = Len(face_distances)
                             /\ best_match_index <= Len(matches)
    /\ loop_pc = "name" => best_match_index <= Len(known_names)
    /\ loop_pc = "details" => best_match_index <= Len(known_details)

\* A registration that fails: the image cannot be loaded or has no face.
FailedRegistration ==
    \/ \E i \in PathInputs :
          /\ \/ load_image_file(i.image_path) = "raise"
             \/ Len(face_encodings(load_image_file(i.image_path))) = 0
          /\ add_suspect(i.image_path, i.name, i.details)
    \/ \E i \in ArrayInputs :
          /\ Len(face_encodings(i.image_array)) = 0
          /\ add_suspect_from_array(i.image_array, i.name, i.details)

\* C10. A registration from an image with no face encoding, or one that
\* raises, returns False and leaves the three lists as they are; a
\* successful one appends one entry to each list at the same index (the
\* name and details given with the encoding), so the lists have one length
\* whenever no registration is under way.
C10_Registration ==
    /\ [][FailedRegistration
            => (ui_ret' = "False" /\ ui_pc' = "idle" /\ UNCHANGED registry)]_vars
    /\ [][(ui_pc = "append_details" /\ ui_pc' = "idle")
            => (/\ ui_ret' = "True"
                /\ Len(known_faces') = Len(known_details) + 1
                /\ Len(known_names') = Len(known_details) + 1
                /\ Len(known_details') = Len(known_details) + 1)]_vars
    /\ [](ui_pc = "idle"
            => (/\ Len(known_faces) = Len(known_names)
                /\ Len(known_names) = Len(known_details)
                /\ \A i \in 1..Len(known_faces) :
                      /\ known_names[i] = NameOf(known_faces[i])
                      /\ known_details[i] = DetailsOf(known_faces[i])))

\* A registration has failed after one that succeeded.
C10_Witness ==
    /\ ui_ret = "False"
    /\ ui_pc = "idle"
    /\ camera_cap = "None"
    /\ ~surveillance_active
    /\ Len(known_details) = 1

\* ------------------------------------------------------------------ the log
IsPrefix(a, b) == Len(a) <= Len(b) /\ SubSeq(b, 1, Len(a)) = a

\* The records of a log are in the order of the times of their frames.
CaptureOrdered(log) ==
    \A i, j \in DOMAIN log : i < j => log[i].timestamp <= log[j].timestamp

\* C11. No step of any operation, save_logs, start_surveillance and
\* stop_surveillance among them, removes, changes or reorders a record of
\* alert_log: the log before the step is a prefix of the log after it, and
\* the records stay in the order in which their frames were captured.
C11_AppendOnly ==
    [][IsPrefix(alert_log, alert_log') /\ CaptureOrdered(alert_log')]_vars

\* Two alerts of two frames are in the log, the first of them saved to a file
\* before the second was raised, and surveillance has been stopped since.
C11_Witness ==
    /\ Len(alert_log) = 2
    /\ alert_log[1].timestamp < alert_log[2].timestamp
    /\ log_file.exists /\ Len(log_file.text) = 1
    /\ stopped

\* ------------------------------------------------------- failures of a frame
\* The step is the one at which the loop absorbs a failure: a read that
\* delivers no frame, or an exception caught at line 151.
Absorbs == absorbed' # absorbed /\ absorbed' # "none"

\* C12. A failed camera read and an exception inside _detect_faces each end
\* the iteration with no Alert appended and the debouncer as it was, and
\* leave the loop running: the capture thread is alive whenever
\* surveillance_active is true, and it exits only at the test of line 112
\* with the flag false.
C12_FailuresAbsorbed ==
    [][/\ Absorbs => /\ loop_pc' = "top"
                     /\ UNCHANGED << alert_log, alert_active, timers, sounds,
                                     imwrite_calls, activations >>
       /\ (loop_pc # "dead" /\ loop_pc' = "dead")
             => (loop_pc = "top" /\ ~surveillance_active)
       /\ surveillance_active' => loop_pc' # "dead"]_vars

\* The detection of a frame has just raised, and the loop is back at its test
\* with surveillance still on.
C12_Witness ==
    /\ absorbed = "detect"
    /\ loop_pc = "top"
    /\ surveillance_active
    /\ current_frame = frames_read

\* ---------------------------------------------------------- empty registry
\* C13. An iteration that finds the registry empty at line 120 has published
\* its frame as current_frame, does not call _detect_faces, and goes back to
\* the test of the loop with no match handed on and no Alert.
C13_EmptyRegistry ==
    [][(loop_pc = "registry" /\ loop_pc' # "registry"
            /\ Len(known_faces) = 0)
          => /\ current_frame = frames_read
             /\ loop_pc' = "top"
             /\ UNCHANGED << current_frame, alert_log, alert_active, timers,
                             handed, last_trigger, activations >>]_vars

\* A frame with a face in it has been published and its iteration is over,
\* with nobody registered and no Alert.
C13_Witness ==
    /\ loop_pc = "top"
    /\ known_faces = << >>
    /\ faces_seen >= 1
    /\ current_frame = frames_read
    /\ alert_log = << >>

\* ----------------------------------------------------------- monotonicity
\* The test of line 143 can be evaluated: the best index is one of matches.
Decidable == loop_pc = "decide" /\ best_match_index <= Len(matches)

\* C14. For the matches and distances of any face the loop decides on, and
\* any two thresholds t1 < t2 of the slider: a best distance d with
\* t1 <= d < t2 is rejected under t1, and a face accepted under t1 is
\* accepted under t2.
C14_Monotone ==
    Decidable =>
        \A t1, t2 \in SliderValues :
            t1 < t2 =>
                /\ (t1 <= face_distances[best_match_index]
                        /\ face_distances[best_match_index] < t2)
                      => ~accepts(matches, face_distances, t1)
                /\ accepts(matches, face_distances, t1)
                      => accepts(matches, face_distances, t2)

\* The loop decides on a face that the lowest threshold of the slider
\* rejects and the highest accepts.
C14_Witness ==
    /\ Decidable
    /\ ~accepts(matches, face_distances, SliderMin)
    /\ accepts(matches, face_distances, SliderMax)

\* ------------------------------------------------------------- the log file
\* The step is a save_logs that wrote its file.
Saves == ui_ret' = "log_file" /\ << ui_ret, log_file >>' # << ui_ret, log_file >>

\* The step is a save_logs that could not open its file.
SaveFails == ui_ret' = "raise" /\ ui_ret # "raise"

\* C15. The file that save_logs writes, read back with json.load, is
\* alert_log as it was at the call, record for record and in order; and
\* save_logs, written or failed, leaves alert_log, alert_active and the
\* pending timer as they were.
C15_RoundTrip ==
    [][/\ Saves => /\ log_file'.exists
                   /\ json_load(log_file'.text) = alert_log
       /\ (Saves \/ SaveFails)
             => UNCHANGED << alert_log, alert_active, timers, activations,
                            loop_pc >>
       /\ SaveFails => UNCHANGED log_file]_vars

\* A log of two alerts has been saved during the cooldown of the second, and
\* the file reads back as the log.
C15_Witness ==
    /\ ui_ret = "log_file"
    /\ log_file.exists
    /\ Len(log_file.text) = 2
    /\ json_load(log_file.text) = alert_log
    /\ alert_active
    /\ timers = 1

\* ------------------------------------------------- the order of the effects
\* C16 as stated. The frame of an Alert is written to disk before the Alert
\* is appended to alert_log and before its sound: there are never more
\* records, or more sounds, than calls of cv2.imwrite.
C16_ImageFirst ==
    /\ Len(alert_log) <= imwrite_calls
    /\ sounds <= imwrite_calls

\* C16, amended. The debouncer comes first, then the append to alert_log,
\* then the write of the frame, then the sound: of the alerts raised so far,
\* at least as many are logged as have had their frame written, and at least
\* as many have had their frame written as have sounded.
C16_LogThenImageThenSound ==
    /\ Len(alert_log) <= activations
    /\ imwrite_calls <= Len(alert_log)
    /\ sounds <= imwrite_calls
    /\ loop_pc = "image" => imwrite_calls = Len(alert_log) - 1
    /\ loop_pc = "sound" => sounds = imwrite_calls - 1

\* The Alert of a frame is in the log and the frame is about to be written.
C16_Witness ==
    /\ loop_pc = "image"
    /\ Len(alert_log) = 2
    /\ imwrite_calls = 1
    /\ sounds = 1

\* ------------------------------------------------ a failed write of the frame
\* The step is a call of cv2.imwrite that wrote nothing.
WriteFails == loop_pc = "image" /\ loop_pc' # "image"
                  /\ alert_images' = alert_images

\* A write has failed and _trigger_alert is past line 175.
WriteFailed == loop_pc = "sound" /\ alert_images < imwrite_calls

\* C17. A cv2.imwrite that writes nothing stops nothing: _trigger_alert goes
\* on to the sound with surveillance, the flag and the log as they were, the
\* cooldown timer is started, and alert_active becomes false again.
C17_WriteFailureAbsorbed ==
    /\ [][WriteFails => /\ loop_pc' = "sound"
                        /\ UNCHANGED << surveillance_active, alert_active,
                                        alert_log, timers >>]_vars
    /\ WriteFailed ~> (timers >= 1)
    /\ WriteFailed ~> ~alert_active

\* The frame of the first Alert was not written, and a second Alert has been
\* raised and logged since.
C17_Witness ==
    /\ loop_pc = "image"
    /\ Len(alert_log) = 2
    /\ imwrite_calls = 1
    /\ alert_images = 0
    /\ surveillance_active

\* ------------------------------------------- several matches in one frame
\* How the calls of _trigger_alert of the invocation under way went, in the
\* order of the faces.
Calls == SelectSeq(handed, LAMBDA x : x # "expired")

Count(h, v) == Cardinality({i \in DOMAIN h : h[i] = v})

Discards == loop_pc = "trigger" /\ loop_pc' # "trigger" /\ alert_active

\* C19. A call of _trigger_alert made while alert_active is true changes
\* nothing: the flag, the log, the images, the sounds and the pending timer
\* are as before, the cooldown is neither restarted nor extended, and the
\* match is kept nowhere; the loop goes on to the next face or to its test.
C19_DiscardNoOp ==
    [][Discards
          => /\ UNCHANGED << alert_active, alert_log, alert_images,
                             imwrite_calls, sounds, timers, activations,
                             registry, engine, current_frame >>
             /\ call' = NoArgs
             /\ loop_pc' \in {"compare", "top"}]_vars

\* The second matching face of a frame has been discarded during the
\* cooldown of the first, after the whole of the first Alert.
C19_Witness ==
    /\ last_trigger = "discarded"
    /\ loop_pc = "top"
    /\ Len(alert_log) = 1
    /\ sounds = 1
    /\ imwrite_calls = 1
    /\ timers = 1
    /\ alert_active

\* ------------------------------------------------------------ cancellation
\* stop_surveillance has cleared the flag and waits in join().
Joining == ui_pc = "join"

\* C20. Once stop_surveillance has cleared surveillance_active, the capture
\* thread leaves its loop, and only at the test of line 112, which it
\* reaches after a failed read as after a detection; the join then returns
\* and stop_surveillance with it, the threads being scheduled fairly.
C20_StopReturns ==
    /\ [][(loop_pc # "dead" /\ loop_pc' = "dead") => loop_pc = "top"]_vars
    /\ [][Joining => ~surveillance_active']_vars
    /\ Joining ~> (loop_pc = "dead")
    /\ Joining ~> (ui_pc = "idle" /\ stopped)

\* stop_surveillance waits in join() while the thread is inside
\* _trigger_alert, playing the sound of an Alert.
C20_Witness ==
    /\ Joining
    /\ ~surveillance_active
    /\ loop_pc = "sound"
    /\ detection_thread = "thread"

\* ------------------------------------------------------- one capture thread
\* A start_surveillance made while surveillance is on.
StartWhileActive ==
    /\ surveillance_active
    /\ \E c \in CameraIndexes : start_surveillance(c)

\* The capture thread is running.
ThreadAlive == loop_pc # "dead"

====
